---------------------------- MODULE Spec2Model ----------------------------
(***************************************************************************)
(* Model of netlify/functions/gemini-predict.js: the `handler` function    *)
(* that forwards a match-prediction request to the Gemini API, validates   *)
(* the response envelope, stores the parsed prediction in the Supabase     *)
(* `predictions` table and answers with the stored row or a classified     *)
(* error.                                                                  *)
(*                                                                         *)
(* Representation of JavaScript values                                     *)
(*   - a string that is searched (an error message, the prompt) is a       *)
(*     sequence of fragments whose concatenation is the string; the        *)
(*     fragments are cut so that every occurrence of a searched phrase is  *)
(*     a fragment of its own, hence String.includes is membership of the   *)
(*     phrase among the fragments and String.startsWith('[') looks at the  *)
(*     first fragment;                                                     *)
(*   - a JSON text is [json |-> v] when it is the serialization of v and   *)
(*     [raw |-> s] when it is not well-formed JSON;                        *)
(*   - `undefined` is Undefined where an object or a text is expected and  *)
(*     NoString where a plain string is expected.                          *)
(***************************************************************************)
EXTENDS Integers, Sequences, FiniteSets, TLC

VARIABLES
    pc,          \* position of the invocation: idle, awaitAI, awaitDB, done
    event,       \* <<>> before the invocation, <<event>> after
    request,     \* the destructured teamA, teamB, matchCategory
    aiCalls,     \* generateContent requests started, in order
    aiResult,    \* <<>> or <<response>> returned by generateContent
    inserts,     \* rows handed to supabase insert, in order
    dbResult,    \* <<>> or <<[data, error]>> returned by the insert
    thrown,      \* <<>> or <<message>> of the error caught at line 180
    responses    \* HTTP responses returned by the handler, in order

vars == <<pc, event, request, aiCalls, aiResult, inserts, dbResult, thrown, responses>>

-----------------------------------------------------------------------------
(* Bounds *)

\* longest provider / database error message, in fragments
MaxMsgLen == 2

-----------------------------------------------------------------------------
(* JavaScript values *)

Undefined == [undefined |-> TRUE]
Null == [null |-> TRUE]
NoString == "<undefined>"

\* `${v}` inside a template literal
TemplateString(v) == IF v = NoString THEN "undefined" ELSE v

\* truthiness of a string-valued expression
TruthyString(s) == s # NoString /\ s # ""

\* truthiness of a text (Undefined, malformed/empty raw text, or JSON text)
TruthyText(t) == t # Undefined /\ t # [raw |-> ""]

\* String.prototype.includes on a fragment sequence
Includes(m, phrase) == \E i \in 1..Len(m) : m[i] = phrase

\* String.prototype.startsWith
StartsWith(m, prefix) == Len(m) > 0 /\ m[1] = prefix

\* lower-casing of one fragment; fragments not listed hold no searched
\* phrase in any letter case
LowerFragment(f) ==
    CASE f = "API key not valid" -> "api key not valid"
      [] f = "Quota" -> "quota"
      [] f = "Safety Filter" -> "safety filter"
      [] f = "JSON" -> "json"
      [] f = "Database" -> "database"
      [] OTHER -> f

\* String.prototype.toLowerCase
ToLowerCase(m) == [i \in 1..Len(m) |-> LowerFragment(m[i])]

\* a JavaScript array
Array(items) == [items |-> items]

\* array?.[0]
First(array) ==
    IF array = Undefined THEN Undefined
    ELSE IF Len(array.items) = 0 THEN Undefined
    ELSE array.items[1]

\* JSON.stringify
JSONStringify(v) == [json |-> v]

\* message of the SyntaxError JSON.parse throws
SyntaxErrorMessage == <<"Unexpected token in ", "JSON", " at position 0">>

\* JSON.parse: Undefined is first converted to the text "undefined"
JSONParse(t) ==
    IF t # Undefined /\ "json" \in DOMAIN t
    THEN [ok |-> TRUE, value |-> t.json, message |-> <<>>]
    ELSE [ok |-> FALSE, value |-> Undefined, message |-> SyntaxErrorMessage]


-----------------------------------------------------------------------------
(* Inputs of an invocation *)

Methods == {"GET", "POST", "PUT"}

\* event.body: absent, malformed, the JSON text null, or a JSON object with
\* all, some or none of the three fields
Bodies ==
    { Undefined,
      [raw |-> "not json"],
      JSONStringify(Null),
      JSONStringify([teamA |-> "Arsenal", teamB |-> "Chelsea", matchCategory |-> "men"]),
      JSONStringify([teamA |-> "Lyon", teamB |-> "Arsenal", matchCategory |-> "women"]),
      JSONStringify([teamA |-> "Arsenal", teamB |-> "Chelsea"]),
      JSONStringify([other |-> "x"]) }

Events == [httpMethod : Methods, body : Bodies]

\* fragments an error message of a collaborator is built from: every phrase
\* the classification searches for, in the searched and in another letter
\* case, the bracket of a formatted message, and a neutral fragment
Vocabulary ==
    { "api key not valid", "API key not valid", "quota", "Quota",
      "safety filter", "Safety Filter", "JSON", "json",
      "database", "Database", "[", "fetch failed" }

\* the messages of at most n fragments; the empty one is the empty string
Messages(n) == UNION { [1..k -> Vocabulary] : k \in 0..n }

\* promptFeedback.blockReason values of the provider (BlockedReason enum)
BlockReasons == {"SAFETY", "OTHER", "BLOCKLIST", "PROHIBITED_CONTENT"}

\* candidate.finishReason values of the provider (FinishReason enum)
FinishReasons == {"STOP", "SAFETY", "MAX_TOKENS", "RECITATION"}

\* text of the first part: empty, malformed, or a serialized prediction
Texts ==
    { [raw |-> ""],
      [raw |-> "{\"prediction\": "],
      JSONStringify([prediction |-> "Draw", confidence |-> "Low"]),
      JSONStringify([prediction |-> "Team A to Win", confidence |-> "High"]) }

\* content of a candidate: absent, without parts, or with a list of parts
\* whose first part has no text or one of the texts
Contents ==
    {Undefined, [parts |-> Undefined], [parts |-> Array(<<>>)]} \cup
    { [parts |-> Array(<<[text |-> t]>>)] : t \in Texts \cup {Undefined} }

Candidates == [finishReason : FinishReasons \cup {NoString}, content : Contents]

PromptFeedbacks == {Undefined} \cup [blockReason : BlockReasons \cup {NoString}]

\* what generateContent resolves to
AIResponses ==
    {Undefined} \cup
    [promptFeedback : PromptFeedbacks,
     candidates : {Undefined, Array(<<>>)} \cup { Array(<<c>>) : c \in Candidates }]

\* primary keys the table assigns
RowIds == {7, 8}


-----------------------------------------------------------------------------
(* Messages of the errors the handler throws (lines 123, 131-135, 152, 170) *)

BlockedMessage(blockReason) ==
    <<"The request was blocked by the AI's ", "safety filter", " (",
      TemplateString(blockReason), "). Please try different team names.">>

DefaultUserMessage ==
    <<"The AI did not return a valid prediction. This can happen with very obscure teams or due to network issues.">>

SafetyUserMessage ==
    <<"The AI's response was blocked by its ", "safety filter",
      ". Please try a different match-up.">>

MaxTokensUserMessage ==
    <<"The AI's response was too long and was cut off before it could be completed.">>

InvalidJSONMessage ==
    <<"The AI returned an invalid ", "JSON", " response. Please try again.">>

SaveFailedMessage(dbMessage) ==
    <<"Failed to save prediction to the ", "database", ": ">> \o dbMessage

\* message of the TypeError thrown when null is destructured (line 98)
DestructureErrorMessage ==
    <<"Cannot destructure property 'teamA' of '", "JSON", ".parse(...)' as it is null.">>

(* Messages the catch block produces (lines 184-207) *)

UnknownErrorMessage == <<"An unknown error occurred.">>

ApiKeyErrorMessage ==
    <<"[", "API Key Error", "] The Gemini API key is invalid or missing. Please check the server configuration.">>

QuotaErrorMessage ==
    <<"[", "Quota Error", "] The application has exceeded its API usage limit. Please try again later.">>

SafetyBlockPrefix == <<"[", "Safety Block", "] ">>

InvalidResponsePrefix == <<"[", "Invalid Response", "] ">>

DatabaseErrorMessage ==
    <<"[", "Database Error", "] A problem occurred while saving the prediction.">>

PredictionErrorMessage ==
    <<"[", "Prediction Error", "] An unexpected issue occurred.">>

-----------------------------------------------------------------------------
(* The handler, piece by piece *)

\* variant: only GET is turned away
MethodAllowedExceptGet(httpMethod) == httpMethod # "GET"

\* line 93: event.httpMethod !== 'POST' is the negation of this
MethodAllowed(httpMethod) == httpMethod = "POST"

\* line 94
MethodNotAllowedResponse ==
    [statusCode |-> 405, headers |-> Undefined,
     body |-> JSONStringify([error |-> <<"Method Not Allowed">>])]

\* property read of a parsed JSON object; a missing property is undefined
Field(obj, name) == IF name \in DOMAIN obj THEN obj[name] ELSE NoString

\* line 98: const { teamA, teamB, matchCategory } = JSON.parse(event.body)
ParseBody(body) ==
    LET parsed == JSONParse(body) IN
    IF ~parsed.ok
    THEN [ok |-> FALSE, message |-> parsed.message, value |-> Undefined]
    ELSE IF parsed.value = Null
    THEN [ok |-> FALSE, message |-> DestructureErrorMessage, value |-> Undefined]
    ELSE [ok |-> TRUE, message |-> <<>>,
          value |-> [teamA |-> Field(parsed.value, "teamA"),
                     teamB |-> Field(parsed.value, "teamB"),
                     matchCategory |-> Field(parsed.value, "matchCategory")]]

\* line 103
BuildPrompt(req) ==
    <<"Analyze the upcoming ", TemplateString(req.matchCategory),
      "'s soccer match between ", TemplateString(req.teamA), " (Home) and ",
      TemplateString(req.teamB),
      " (Away). Provide a detailed prediction including analysis, key stats, betting tips, and player information.">>

\* lines 105-113: the argument of ai.models.generateContent
GenerateContentRequest(req) ==
    [model |-> "gemini-2.5-pro", contents |-> BuildPrompt(req),
     responseMimeType |-> "application/json"]

\* line 117: response?.candidates?.[0]
FirstCandidate(response) ==
    IF response = Undefined THEN Undefined
    ELSE First(response.candidates)

\* line 118: response?.promptFeedback?.blockReason
BlockReasonOf(response) ==
    IF response = Undefined THEN NoString
    ELSE IF response.promptFeedback = Undefined THEN NoString
    ELSE response.promptFeedback.blockReason

\* line 127: candidate.content?.parts?.[0]?.text
PartText(candidate) ==
    IF candidate.content = Undefined THEN Undefined
    ELSE IF First(candidate.content.parts) = Undefined THEN Undefined
    ELSE First(candidate.content.parts).text

\* line 128: candidate?.finishReason || 'NO_CANDIDATE'
FinishReasonOf(candidate) ==
    IF candidate = Undefined THEN "NO_CANDIDATE"
    ELSE IF TruthyString(candidate.finishReason) THEN candidate.finishReason
    ELSE "NO_CANDIDATE"

\* variant: the finish reason is compared in the wrong letter case
UserMessageLowerCase(finishReason) ==
    IF finishReason = "safety" THEN SafetyUserMessage
    ELSE IF finishReason = "max_tokens" THEN MaxTokensUserMessage
    ELSE DefaultUserMessage

\* lines 131-136
UserMessage(finishReason) ==
    IF finishReason = "SAFETY" THEN SafetyUserMessage
    ELSE IF finishReason = "MAX_TOKENS" THEN MaxTokensUserMessage
    ELSE DefaultUserMessage

\* variant: the inner catch logs and does not rethrow
ParsePredictionSwallowing(predictionText) ==
    LET parsed == JSONParse(predictionText) IN
    [threw |-> FALSE, message |-> <<>>, predictionData |-> parsed.value]

\* lines 147-153: JSON.parse of the candidate text inside its own try/catch
ParsePrediction(predictionText) ==
    LET parsed == JSONParse(predictionText) IN
    IF parsed.ok
    THEN [threw |-> FALSE, message |-> <<>>, predictionData |-> parsed.value]
    ELSE [threw |-> TRUE, message |-> InvalidJSONMessage, predictionData |-> Undefined]

\* variant: the candidate is looked at before the prompt block
ValidateCandidateFirst(response) ==
    LET candidate == FirstCandidate(response)
        blockReason == BlockReasonOf(response)
    IN  IF candidate # Undefined /\ TruthyText(PartText(candidate))
        THEN ParsePrediction(PartText(candidate))
        ELSE IF TruthyString(blockReason)
        THEN [threw |-> TRUE, message |-> BlockedMessage(blockReason),
              predictionData |-> Undefined]
        ELSE [threw |-> TRUE, message |-> UserMessage(FinishReasonOf(candidate)),
              predictionData |-> Undefined]

\* lines 117-153: what the validation of the provider response ends in
ValidateResponse(response) ==
    LET candidate == FirstCandidate(response)
        blockReason == BlockReasonOf(response)
    IN  IF TruthyString(blockReason)
        THEN [threw |-> TRUE, message |-> BlockedMessage(blockReason),
              predictionData |-> Undefined]
        ELSE IF candidate = Undefined \/ ~TruthyText(PartText(candidate))
        THEN [threw |-> TRUE, message |-> UserMessage(FinishReasonOf(candidate)),
              predictionData |-> Undefined]
        ELSE ParsePrediction(PartText(candidate))

\* variant: home and away team are interchanged
InsertRowSwapped(req, predictionData) ==
    [team_a |-> req.teamB, team_b |-> req.teamA,
     match_category |-> req.matchCategory,
     prediction_data |-> predictionData, status |-> "pending"]

\* lines 158-164: the row given to insert
InsertRow(req, predictionData) ==
    [team_a |-> req.teamA, team_b |-> req.teamB,
     match_category |-> req.matchCategory,
     prediction_data |-> predictionData, status |-> "pending"]

\* the row the table returns through .select().single(): the inserted
\* columns and the key the table assigned
StoredRow(row, id) ==
    [id |-> id, team_a |-> row.team_a, team_b |-> row.team_b,
     match_category |-> row.match_category,
     prediction_data |-> row.prediction_data, status |-> row.status]

\* what the insert resolves to: { data, error }
InsertSaved(row, id) == [data |-> StoredRow(row, id), error |-> Null]

InsertError(message) == [data |-> Null, error |-> [message |-> message]]

\* variant: the insert is answered with 201 Created
SuccessResponseCreated(savedPrediction) ==
    [statusCode |-> 201, headers |-> [ContentType |-> "application/json"],
     body |-> JSONStringify(savedPrediction)]

\* lines 174-178
SuccessResponse(savedPrediction) ==
    [statusCode |-> 200, headers |-> [ContentType |-> "application/json"],
     body |-> JSONStringify(savedPrediction)]

\* variant: the quota test comes before the API key test
ClassifyQuotaFirst(errorMessage) ==
    IF Includes(ToLowerCase(errorMessage), "quota")
    THEN [statusCode |-> 429, errorMessage |-> QuotaErrorMessage]
    ELSE IF Includes(ToLowerCase(errorMessage), "api key not valid")
    THEN [statusCode |-> 401, errorMessage |-> ApiKeyErrorMessage]
    ELSE IF Includes(errorMessage, "safety filter")
    THEN [statusCode |-> 400, errorMessage |-> SafetyBlockPrefix \o errorMessage]
    ELSE IF Includes(errorMessage, "JSON")
    THEN [statusCode |-> 500, errorMessage |-> InvalidResponsePrefix \o errorMessage]
    ELSE IF Includes(errorMessage, "database")
    THEN [statusCode |-> 500, errorMessage |-> DatabaseErrorMessage]
    ELSE IF ~StartsWith(errorMessage, "[")
    THEN [statusCode |-> 500, errorMessage |-> PredictionErrorMessage]
    ELSE [statusCode |-> 500, errorMessage |-> errorMessage]

\* variant: the JSON test searches the lower-case word
ClassifyJsonLowerCase(errorMessage) ==
    IF Includes(ToLowerCase(errorMessage), "api key not valid")
    THEN [statusCode |-> 401, errorMessage |-> ApiKeyErrorMessage]
    ELSE IF Includes(ToLowerCase(errorMessage), "quota")
    THEN [statusCode |-> 429, errorMessage |-> QuotaErrorMessage]
    ELSE IF Includes(errorMessage, "safety filter")
    THEN [statusCode |-> 400, errorMessage |-> SafetyBlockPrefix \o errorMessage]
    ELSE IF Includes(errorMessage, "json")
    THEN [statusCode |-> 500, errorMessage |-> InvalidResponsePrefix \o errorMessage]
    ELSE IF Includes(errorMessage, "database")
    THEN [statusCode |-> 500, errorMessage |-> DatabaseErrorMessage]
    ELSE IF ~StartsWith(errorMessage, "[")
    THEN [statusCode |-> 500, errorMessage |-> PredictionErrorMessage]
    ELSE [statusCode |-> 500, errorMessage |-> errorMessage]

\* lines 183-209: status code and message for the caught message
Classify(errorMessage) ==
    IF Includes(ToLowerCase(errorMessage), "api key not valid")
    THEN [statusCode |-> 401, errorMessage |-> ApiKeyErrorMessage]
    ELSE IF Includes(ToLowerCase(errorMessage), "quota")
    THEN [statusCode |-> 429, errorMessage |-> QuotaErrorMessage]
    ELSE IF Includes(errorMessage, "safety filter")
    THEN [statusCode |-> 400, errorMessage |-> SafetyBlockPrefix \o errorMessage]
    ELSE IF Includes(errorMessage, "JSON")
    THEN [statusCode |-> 500, errorMessage |-> InvalidResponsePrefix \o errorMessage]
    ELSE IF Includes(errorMessage, "database")
    THEN [statusCode |-> 500, errorMessage |-> DatabaseErrorMessage]
    ELSE IF ~StartsWith(errorMessage, "[")
    THEN [statusCode |-> 500, errorMessage |-> PredictionErrorMessage]
    ELSE [statusCode |-> 500, errorMessage |-> errorMessage]

\* line 184: error.message || 'An unknown error occurred.'
EffectiveMessage(message) == IF message = <<>> THEN UnknownErrorMessage ELSE message

\* lines 180-216: the response built from the caught error
CatchResponse(message) ==
    LET c == Classify(EffectiveMessage(message)) IN
    [statusCode |-> c.statusCode, headers |-> [ContentType |-> "application/json"],
     body |-> JSONStringify([error |-> c.errorMessage])]

\* the catch block as a state change: the error is caught, one response returned
Catch(message) ==
    /\ thrown' = <<message>>
    /\ responses' = Append(responses, CatchResponse(message))
    /\ pc' = "done"

-----------------------------------------------------------------------------
(* The state machine: one invocation, cut at its two awaits *)

Init ==
    /\ pc = "idle"
    /\ event = <<>>
    /\ request = Undefined
    /\ aiCalls = <<>>
    /\ aiResult = <<>>
    /\ inserts = <<>>
    /\ dbResult = <<>>
    /\ thrown = <<>>
    /\ responses = <<>>

\* lines 92-95: a method other than POST is answered at once
RejectMethod(ev) ==
    /\ pc = "idle"
    /\ ~MethodAllowed(ev.httpMethod)
    /\ event' = <<ev>>
    /\ responses' = Append(responses, MethodNotAllowedResponse)
    /\ pc' = "done"
    /\ UNCHANGED <<request, aiCalls, aiResult, inserts, dbResult, thrown>>

\* lines 97-98: the body does not parse or cannot be destructured
RejectBody(ev) ==
    /\ pc = "idle"
    /\ MethodAllowed(ev.httpMethod)
    /\ ~ParseBody(ev.body).ok
    /\ event' = <<ev>>
    /\ Catch(ParseBody(ev.body).message)
    /\ UNCHANGED <<request, aiCalls, aiResult, inserts, dbResult>>

\* lines 97-113: the body parses and generateContent is started
StartGenerateContent(ev) ==
    /\ pc = "idle"
    /\ MethodAllowed(ev.httpMethod)
    /\ ParseBody(ev.body).ok
    /\ event' = <<ev>>
    /\ request' = ParseBody(ev.body).value
    /\ aiCalls' = Append(aiCalls, GenerateContentRequest(ParseBody(ev.body).value))
    /\ pc' = "awaitAI"
    /\ UNCHANGED <<aiResult, inserts, dbResult, thrown, responses>>

\* line 105: generateContent rejects; the error goes to the catch block
GenerateContentFails(message) ==
    /\ pc = "awaitAI"
    /\ Catch(message)
    /\ UNCHANGED <<event, request, aiCalls, aiResult, inserts, dbResult>>

\* lines 117-153: generateContent resolves and the validation throws
ResponseRejected(response) ==
    /\ pc = "awaitAI"
    /\ ValidateResponse(response).threw
    /\ aiResult' = <<response>>
    /\ Catch(ValidateResponse(response).message)
    /\ UNCHANGED <<event, request, aiCalls, inserts, dbResult>>

\* lines 117-166: generateContent resolves, the validation passes and the
\* insert is started
StartInsert(response) ==
    /\ pc = "awaitAI"
    /\ ~ValidateResponse(response).threw
    /\ aiResult' = <<response>>
    /\ inserts' = Append(inserts, InsertRow(request, ValidateResponse(response).predictionData))
    /\ pc' = "awaitDB"
    /\ UNCHANGED <<event, request, aiCalls, dbResult, thrown, responses>>

\* lines 168-171: the insert resolves with an error
InsertFails(message) ==
    /\ pc = "awaitDB"
    /\ LET result == InsertError(message) IN
       /\ result.error # Null
       /\ dbResult' = <<result>>
       /\ Catch(SaveFailedMessage(result.error.message))
    /\ UNCHANGED <<event, request, aiCalls, aiResult, inserts>>

\* lines 168-178: the insert resolves with the saved row
InsertSucceeds(id) ==
    /\ pc = "awaitDB"
    /\ LET result == InsertSaved(inserts[Len(inserts)], id) IN
       /\ result.error = Null
       /\ dbResult' = <<result>>
       /\ responses' = Append(responses, SuccessResponse(result.data))
    /\ pc' = "done"
    /\ UNCHANGED <<event, request, aiCalls, aiResult, inserts, thrown>>

Next ==
    \/ \E ev \in Events : RejectMethod(ev)
    \/ \E ev \in Events : RejectBody(ev)
    \/ \E ev \in Events : StartGenerateContent(ev)
    \/ \E message \in Messages(MaxMsgLen) : GenerateContentFails(message)
    \/ \E response \in AIResponses : ResponseRejected(response)
    \/ \E response \in AIResponses : StartInsert(response)
    \/ \E message \in Messages(MaxMsgLen) : InsertFails(message)
    \/ \E id \in RowIds : InsertSucceeds(id)

Spec == Init /\ [][Next]_vars


-----------------------------------------------------------------------------
(* Observations used by the properties *)

Invoked == event # <<>>

IsPost == Invoked /\ event[1].httpMethod = "POST"

Done == pc = "done"

\* the single response of a finished invocation
OneResponse == Len(responses) = 1

Status == responses[1].statusCode

\* the error member of the response body
ErrorText == responses[1].body.json.error

AIReturned == aiResult # <<>>

Blocked == AIReturned /\ TruthyString(BlockReasonOf(aiResult[1]))

Candidate == FirstCandidate(aiResult[1])

HasText == Candidate # Undefined /\ TruthyText(PartText(Candidate))

TextParses == HasText /\ JSONParse(PartText(Candidate)).ok

InsertReturned == dbResult # <<>>

NoOutboundCall == aiCalls = <<>> /\ inserts = <<>>

\* the tail of the message is `text` (a bracketed label may precede it)
EndsWith(m, text) == \E k \in 0..Len(m) : SubSeq(m, k + 1, Len(m)) = text

-----------------------------------------------------------------------------
(* Properties *)

\* C1: an invocation whose method is not POST is answered with 405 and
\* starts neither generateContent nor the insert, whatever the body is.
C1_NonPostRejected ==
    (Invoked /\ event[1].httpMethod # "POST") =>
        /\ Done
        /\ OneResponse
        /\ Status = 405
        /\ NoOutboundCall

C1_Witness ==
    /\ Invoked
    /\ event[1].httpMethod = "PUT"
    /\ event[1].body = [raw |-> "not json"]
    /\ Done
    /\ OneResponse
    /\ Status = 405

\* C2: when the response has no block reason, the text of its first
\* candidate parses and the insert returns a row, exactly one insert was
\* issued, its row is {team_a, team_b, match_category, prediction_data,
\* status 'pending'} built from the request and the parsed text, and the
\* answer is 200 with the returned row as body.
C2_SuccessReturnsSavedRow ==
    (IsPost /\ AIReturned /\ ~Blocked /\ TextParses
        /\ InsertReturned /\ dbResult[1].error = Null) =>
        /\ inserts =
             << [team_a |-> Field(event[1].body.json, "teamA"),
                 team_b |-> Field(event[1].body.json, "teamB"),
                 match_category |-> Field(event[1].body.json, "matchCategory"),
                 prediction_data |-> PartText(Candidate).json,
                 status |-> "pending"] >>
        /\ Done
        /\ OneResponse
        /\ Status = 200
        /\ responses[1].body = JSONStringify(dbResult[1].data)

C2_Witness ==
    /\ IsPost /\ AIReturned /\ ~Blocked /\ TextParses
    /\ InsertReturned /\ dbResult[1].error = Null
    /\ Done
    /\ OneResponse
    /\ Status = 200
    /\ responses[1].body.json.team_a = "Lyon"
    /\ responses[1].body.json.team_b = "Arsenal"
    /\ responses[1].body.json.status = "pending"

\* C3: a response with a non-empty promptFeedback.blockReason is answered
\* with 400 and the insert is never started, also when the response holds a
\* candidate with well-formed JSON text.
C3_PromptBlockIs400 ==
    (IsPost /\ Blocked) =>
        /\ Done
        /\ OneResponse
        /\ Status = 400
        /\ inserts = <<>>

C3_Witness ==
    /\ IsPost /\ Blocked /\ TextParses
    /\ Done
    /\ OneResponse
    /\ Status = 400

\* C4: a response without block reason whose first candidate has a
\* non-empty text that does not parse as JSON is answered with 500 and a
\* message containing 'Invalid Response', and the insert is never started.
C4_InvalidJsonIs500 ==
    (IsPost /\ AIReturned /\ ~Blocked /\ HasText /\ ~TextParses) =>
        /\ Done
        /\ OneResponse
        /\ Status = 500
        /\ Includes(ErrorText, "Invalid Response")
        /\ inserts = <<>>

C4_Witness ==
    /\ IsPost /\ AIReturned /\ ~Blocked /\ HasText /\ ~TextParses
    /\ Done
    /\ OneResponse
    /\ Status = 500
    /\ Includes(ErrorText, "Invalid Response")

\* C5: when the insert returns an error, whatever its message, the answer
\* is 500 with a message containing 'Database Error' and the insert was
\* attempted exactly once.
C5_InsertErrorIsDatabaseError ==
    (IsPost /\ InsertReturned /\ dbResult[1].error # Null) =>
        /\ Done
        /\ OneResponse
        /\ Status = 500
        /\ Includes(ErrorText, "Database Error")
        /\ Len(inserts) = 1

\* C6: when the response has no block reason and no candidate text, and the
\* finish reason is MAX_TOKENS or anything but SAFETY (or there is no
\* candidate), the answer is 500, its message is the explanatory message of
\* that cause, and the insert is never started.
C6_EmptyResponseExplained ==
    (IsPost /\ AIReturned /\ ~Blocked /\ ~HasText
        /\ FinishReasonOf(Candidate) # "SAFETY") =>
        /\ Done
        /\ OneResponse
        /\ Status = 500
        /\ EndsWith(ErrorText,
                    IF FinishReasonOf(Candidate) = "MAX_TOKENS"
                    THEN MaxTokensUserMessage ELSE DefaultUserMessage)
        /\ inserts = <<>>

\* C7 as stated: a response without block reason whose first candidate has
\* finishReason SAFETY is answered with 400 and the '[Safety Block]' form of
\* the 'blocked by its safety filter' message, and no insert is started.
C7_SafetyFinishAlwaysBlocked ==
    (IsPost /\ AIReturned /\ ~Blocked /\ Candidate # Undefined
        /\ Candidate.finishReason = "SAFETY") =>
        /\ Done
        /\ OneResponse
        /\ Status = 400
        /\ ErrorText = SafetyBlockPrefix \o SafetyUserMessage
        /\ inserts = <<>>

\* C7 amended: the same for a first candidate with finishReason SAFETY that
\* carries no text.
C7_SafetyFinishWithoutTextBlocked ==
    (IsPost /\ AIReturned /\ ~Blocked /\ Candidate # Undefined
        /\ Candidate.finishReason = "SAFETY" /\ ~HasText) =>
        /\ Done
        /\ OneResponse
        /\ Status = 400
        /\ ErrorText = SafetyBlockPrefix \o SafetyUserMessage
        /\ inserts = <<>>

C7_Witness ==
    /\ IsPost /\ AIReturned /\ ~Blocked /\ Candidate # Undefined
    /\ Candidate.finishReason = "SAFETY" /\ ~HasText
    /\ Done
    /\ OneResponse
    /\ Status = 400
    /\ Includes(ErrorText, "Safety Block")

\* C8: generateContent is started at most once, the insert at most once,
\* the insert only after generateContent returned a response with no block
\* reason and a candidate text that parses; when generateContent fails or
\* its response fails the validation the insert is never started.
C8_CallsOrderedSingleShot ==
    /\ Len(aiCalls) <= 1
    /\ Len(inserts) <= 1
    /\ inserts # <<>> => (aiCalls # <<>> /\ AIReturned /\ ~Blocked /\ TextParses)
    /\ (aiCalls # <<>> /\ Done /\ ~AIReturned) => inserts = <<>>
    /\ (AIReturned /\ (Blocked \/ ~TextParses)) => (Done /\ inserts = <<>>)
    /\ InsertReturned => inserts # <<>>

C8_Witness ==
    /\ Done
    /\ Len(aiCalls) = 1
    /\ Len(inserts) = 1
    /\ InsertReturned
    /\ Candidate.finishReason = "RECITATION"

\* C9: the caught message m is classified by the first match of: lower-case
\* m contains 'api key not valid' -> 401; lower-case m contains 'quota' ->
\* 429; m contains 'safety filter' -> 400; m contains 'JSON' -> 500;
\* m contains 'database' -> 500; otherwise 500 with the '[Prediction Error]'
\* message, or m itself when m starts with '['.
C9_ClassificationByFirstMatch ==
    (Done /\ thrown # <<>>) =>
        LET m == IF thrown[1] = <<>> THEN UnknownErrorMessage ELSE thrown[1] IN
        /\ OneResponse
        /\ IF Includes(ToLowerCase(m), "api key not valid")
           THEN Status = 401 /\ Includes(ErrorText, "API Key Error")
           ELSE IF Includes(ToLowerCase(m), "quota")
           THEN Status = 429 /\ Includes(ErrorText, "Quota Error")
           ELSE IF Includes(m, "safety filter")
           THEN Status = 400 /\ Includes(ErrorText, "Safety Block")
           ELSE IF Includes(m, "JSON")
           THEN Status = 500 /\ Includes(ErrorText, "Invalid Response")
           ELSE IF Includes(m, "database")
           THEN Status = 500 /\ Includes(ErrorText, "Database Error")
           ELSE IF StartsWith(m, "[")
           THEN Status = 500 /\ ErrorText = m
           ELSE Status = 500 /\ ErrorText = PredictionErrorMessage

C9_Witness ==
    /\ Done
    /\ thrown = << <<"Quota", "API key not valid">> >>
    /\ OneResponse
    /\ Status = 401

\* C10: an invocation returns nothing before it ends and exactly one
\* response when it ends; the status is one of 200, 400, 401, 405, 429,
\* 500; 200 is returned only after an insert that succeeded, with the
\* inserted row as body; every other body has the shape {error: string}.
C10_OneWellFormedResponse ==
    /\ ~Done => responses = <<>>
    /\ Done =>
        /\ OneResponse
        /\ Status \in {200, 400, 401, 405, 429, 500}
        /\ Status = 200 =>
            /\ InsertReturned
            /\ dbResult[1].error = Null
            /\ responses[1].body = JSONStringify(dbResult[1].data)
        /\ Status # 200 =>
            /\ DOMAIN responses[1].body.json = {"error"}
            /\ Len(ErrorText) > 0
            /\ \A i \in 1..Len(ErrorText) : ErrorText[i] \in STRING

C10_Witness ==
    /\ Done
    /\ OneResponse
    /\ Status = 200
    /\ InsertReturned
    /\ responses[1].body.json.id \in RowIds

=============================================================================
